---- MODULE Spec2Model ----
(***************************************************************************)
(* Model of streamlit_app.py: the debt manager for a four-year contract.   *)
(*                                                                         *)
(* State: the customer registry (customers.xlsx), the payment store        *)
(* (debt_payments.xlsx), the clock, and what the page shows after a        *)
(* handler has run (selected customer, yearly summary, receipt download).  *)
(*                                                                         *)
(* Representation                                                          *)
(*   - a datetime.date is a record [year, month, day]; pd.NaT is NaT.      *)
(*   - a date cell of the store is the text written by strftime            *)
(*     ("%Y-%m-%d"), modelled by its three number fields <<y, m, d>>; the  *)
(*     empty cell is <<>>; a text that names no calendar day (for example  *)
(*     2025-02-30) is a triple that to_datetime coerces to NaT.            *)
(*   - amounts are whole baht. required_yearly = total_due / 4 is kept     *)
(*     exactly as a number of quarter baht (fields ending in 4), and the   *)
(*     penalty text as satang after the rounding of the ",.2f" format.     *)
(*   - the fiscal label f"{start}-{end}" is the pair <<start, end>>.       *)
(*   - DataFrame positions are 1-based here (pandas index + 1).            *)
(***************************************************************************)
EXTENDS Integers, Sequences, FiniteSets, TLC

VARIABLES
    customers_df,       \* rows <<NAME, AmountDue>> of customers.xlsx
    payments_file,      \* rows of debt_payments.xlsx, in file order
    today,              \* datetime.today().date() as read by the last handler
    selected_customer,  \* the customer the page shows
    summary_data,       \* the list display_customer_summary returned last
    receipt,            \* <<>> or <<r>>: the receipt offered for download
    last_op,            \* the handler that ran last
    sessions            \* per browser session: where its script run stands in a handler

vars == <<customers_df, payments_file, today, selected_customer,
          summary_data, receipt, last_op, sessions>>

----------------------------------------------------------------------------
(* Bounds of the model *)

\* the store holds at most this many rows
MaxRecords == 2

\* calendar years modelled before and after the contract span
YearsAround == 1

----------------------------------------------------------------------------
(* Program constants *)

start_contract_fiscal_year == 2025

\* range(4): the contract's fiscal years; also the divisor of total_due / 4
CONTRACT_YEARS == 4

\* remaining * 0.15, as hundredths
PENALTY_RATE_PCT == 15

----------------------------------------------------------------------------
(* datetime.date *)

Date(y, m, d) == [year |-> y, month |-> m, day |-> d]

NaT == [year |-> 0, month |-> 0, day |-> 0]

IsLeap(y) == (y % 4 = 0 /\ y % 100 # 0) \/ y % 400 = 0

DaysInMonth(y, m) ==
    IF m = 2 THEN (IF IsLeap(y) THEN 29 ELSE 28)
    ELSE IF m \in {4, 6, 9, 11} THEN 30 ELSE 31

\* the (y, m, d) that datetime.date accepts
IsValidYMD(y, m, d) ==
    /\ y >= 1 /\ y <= 9999
    /\ m >= 1 /\ m <= 12
    /\ d >= 1 /\ d <= DaysInMonth(y, m)

\* date.__le__ / __ge__ / __lt__ / __gt__
DateLE(a, b) ==
    \/ a.year < b.year
    \/ a.year = b.year /\ a.month < b.month
    \/ a.year = b.year /\ a.month = b.month /\ a.day <= b.day

DateGE(a, b) == DateLE(b, a)

DateGT(a, b) == ~DateLE(a, b)

\* payment_date.strftime("%Y-%m-%d")
strftime(d) == <<d.year, d.month, d.day>>

\* to_datetime that fills what it cannot parse with the contract's first day
to_datetime_filled(cell) ==
    IF Len(cell) = 3 /\ IsValidYMD(cell[1], cell[2], cell[3])
    THEN Date(cell[1], cell[2], cell[3])
    ELSE Date(2025, 4, 5)

\* pd.to_datetime(cell, errors='coerce').dt.date
to_datetime(cell) ==
    IF Len(cell) = 3 /\ IsValidYMD(cell[1], cell[2], cell[3])
    THEN Date(cell[1], cell[2], cell[3])
    ELSE NaT

----------------------------------------------------------------------------
(* get_fiscal_year_string *)

get_fiscal_year_string(input_date) ==
    LET fiscal_year_start_candidate == input_date.year
        fiscal_year_start ==
            IF input_date.month < 4 \/ (input_date.month = 4 /\ input_date.day < 5)
            THEN fiscal_year_start_candidate - 1
            ELSE fiscal_year_start_candidate
        fiscal_year_end_period == fiscal_year_start + 1
    IN  <<fiscal_year_start, fiscal_year_end_period>>

----------------------------------------------------------------------------
(* load_data and the save that ends the add and edit handlers *)

\* the float NaN of a missing cell
NaN == "<NaN>"

\* read_excel reads an empty cell, and the texts it takes for NA, as NaN
read_note(cell) == IF cell \in {"", "nan"} THEN NaN ELSE cell

\* to_excel writes NaN as an empty cell
write_note(v) == IF v = NaN THEN "" ELSE v

\* str(note) of the edit form
str(v) == IF v = NaN THEN "nan" ELSE v

\* customers_df["NAME"].tolist()
customer_names(cdf) == [k \in 1..Len(cdf) |-> cdf[k][1]]

\* dict(zip(customers_df["NAME"], customers_df["AmountDue"])): the last row of a name wins
customer_amounts(cdf) ==
    [n \in {cdf[k][1] : k \in 1..Len(cdf)} |->
        LET last == CHOOSE k \in 1..Len(cdf) :
                        /\ cdf[k][1] = n
                        /\ \A j \in 1..Len(cdf) : cdf[j][1] = n => j <= k
        IN  cdf[last][2]]

\* payments_df: the rows of the file plus the parsed date column
load_data(file) ==
    [i \in 1..Len(file) |->
        [name   |-> file[i].name,
         date   |-> file[i].date,
         amount |-> file[i].amount,
         note   |-> read_note(file[i].note),
         date_dt |-> to_datetime(file[i].date)]]

\* drop(columns=[date_dt]) and to_excel(PAYMENTS_FILE, index=False)
to_excel(df) ==
    [i \in 1..Len(df) |->
        [name   |-> df[i].name,
         date   |-> df[i].date,
         amount |-> df[i].amount,
         note   |-> write_note(df[i].note)]]

----------------------------------------------------------------------------
(* display_customer_summary *)

RECURSIVE SumAmount(_, _)
\* df.loc[rows]["amount"].sum()
SumAmount(df, rows) ==
    IF rows = {} THEN 0
    ELSE LET i == CHOOSE j \in rows : TRUE
         IN  df[i].amount + SumAmount(df, rows \ {i})

\* customer_amounts.get(customer_name, 0)
total_due_of(customer_name, amounts) ==
    IF customer_name \in DOMAIN amounts THEN amounts[customer_name] ELSE 0

\* required_yearly without the guard: total_due / 4 whatever its sign
required_yearly4_unguarded(customer_name, amounts) ==
    total_due_of(customer_name, amounts)

\* total_due / 4 if total_due > 0 else 0, in quarter baht
required_yearly4(customer_name, amounts) ==
    LET total_due == total_due_of(customer_name, amounts)
    IN  IF total_due > 0 THEN total_due ELSE 0

\* payments_df[payments_df[name] == customer_name]
customer_rows(customer_name, payments_df) ==
    {i \in 1..Len(payments_df) : payments_df[i].name = customer_name}

total_paid_all_time(customer_name, payments_df) ==
    SumAmount(payments_df, customer_rows(customer_name, payments_df))

total_remaining(customer_name, amounts, payments_df) ==
    total_due_of(customer_name, amounts) - total_paid_all_time(customer_name, payments_df)

start_date_fiscal(fiscal_start_year) == Date(fiscal_start_year, 4, 5)

\* end_date_fiscal closing the period on the next period's first day
end_date_fiscal_april5(fiscal_start_year) == Date(fiscal_start_year + 1, 4, 5)

end_date_fiscal(fiscal_start_year) == Date(fiscal_start_year + 1, 3, 5)

penalty_check_date(fiscal_start_year) == Date(fiscal_start_year + 1, 3, 3)

\* df_year with the last day of the period left out (x < end_date_fiscal)
df_year_open_end(customer_name, payments_df, fiscal_start_year) ==
    {i \in 1..Len(payments_df) :
        /\ payments_df[i].name = customer_name
        /\ payments_df[i].date_dt # NaT
        /\ DateGE(payments_df[i].date_dt, start_date_fiscal(fiscal_start_year))
        /\ ~DateGE(payments_df[i].date_dt, end_date_fiscal(fiscal_start_year))}

\* the filter of one fiscal year: the positions of df_year
df_year(customer_name, payments_df, fiscal_start_year) ==
    {i \in 1..Len(payments_df) :
        /\ payments_df[i].name = customer_name
        /\ payments_df[i].date_dt # NaT
        /\ DateGE(payments_df[i].date_dt, start_date_fiscal(fiscal_start_year))
        /\ payments_df[i].date_dt # NaT
        /\ DateLE(payments_df[i].date_dt, end_date_fiscal(fiscal_start_year))}

paid_this_fiscal_year(customer_name, payments_df, fiscal_start_year) ==
    SumAmount(payments_df, df_year(customer_name, payments_df, fiscal_start_year))

Max(a, b) == IF a >= b THEN a ELSE b

\* max(0, required_yearly - paid_this_fiscal_year), in quarter baht
remaining_this_fiscal_year4(required4, paid) ==
    Max(0, required4 - CONTRACT_YEARS * paid)

\* f"{penalty_amount:,.2f}" of remaining * 0.15: satang, rounded half to even
penalty_text(remaining4) ==
    LET num == remaining4 * PENALTY_RATE_PCT   \* satang * CONTRACT_YEARS
        q == num \div CONTRACT_YEARS
        r == num % CONTRACT_YEARS
    IN  IF 2 * r < CONTRACT_YEARS THEN q
        ELSE IF 2 * r > CONTRACT_YEARS THEN q + 1
        ELSE IF q % 2 = 0 THEN q ELSE q + 1

\* penalty_status with the check date itself penalised (today >= penalty_check_date)
penalty_status_on_check_date(remaining4, now, fiscal_start_year) ==
    IF remaining4 > 0
    THEN IF DateGE(now, penalty_check_date(fiscal_start_year))
         THEN <<"baht", penalty_text(remaining4)>>
         ELSE <<"pending", 0>>
    ELSE <<"none", 0>>

\* penalty_status_text: <<kind, satang>>
penalty_status(remaining4, now, fiscal_start_year) ==
    IF remaining4 > 0
    THEN IF DateGT(now, penalty_check_date(fiscal_start_year))
         THEN <<"baht", penalty_text(remaining4)>>
         ELSE <<"pending", 0>>
    ELSE <<"none", 0>>

\* one dict of summary_data
summary_row(customer_name, amounts, payments_df, now, i) ==
    LET fiscal_start_year == start_contract_fiscal_year + i
        fiscal_end_year_for_period == fiscal_start_year + 1
        required4 == required_yearly4(customer_name, amounts)
        paid == paid_this_fiscal_year(customer_name, payments_df, fiscal_start_year)
        remaining4 == remaining_this_fiscal_year4(required4, paid)
    IN  [fiscal_year |-> <<fiscal_start_year, fiscal_end_year_for_period>>,
         required4   |-> required4,
         paid        |-> paid,
         remaining4  |-> remaining4,
         status      |-> penalty_status(remaining4, now, fiscal_start_year)]

\* the returned summary_data: for i in range(4)
display_customer_summary(customer_name, amounts, payments_df, now) ==
    [k \in 1..CONTRACT_YEARS |->
        summary_row(customer_name, amounts, payments_df, now, k - 1)]

\* penalties_incurred_display: the rows with a penalty
penalties_incurred_display(summary) ==
    SelectSeq(summary, LAMBDA row : row.status[1] = "baht")

----------------------------------------------------------------------------
(* generate_pdf_receipt: the lookup of the payment's fiscal year *)

RECURSIVE first_match(_, _, _)
first_match(yearly_summary_for_pdf, label, k) ==
    IF k > Len(yearly_summary_for_pdf) THEN <<>>
    ELSE IF yearly_summary_for_pdf[k].fiscal_year = label
         THEN <<yearly_summary_for_pdf[k]>>
         ELSE first_match(yearly_summary_for_pdf, label, k + 1)

\* <<row>> when a row carries the payment's label, <<>> for None
payment_fiscal_year_info(payment_date, yearly_summary_for_pdf) ==
    first_match(yearly_summary_for_pdf, get_fiscal_year_string(payment_date), 1)

generate_pdf_receipt(customer_name, payment_date, amount_paid, total_due, total_paid, total_rem, yearly_summary_for_pdf) ==
    [customer_name   |-> customer_name,
     payment_date    |-> payment_date,
     amount_paid     |-> amount_paid,
     info            |-> payment_fiscal_year_info(payment_date, yearly_summary_for_pdf),
     total_due       |-> total_due,
     total_paid_all_time |-> total_paid,
     total_remaining |-> total_rem]

----------------------------------------------------------------------------
(* Inputs *)

\* customers.xlsx as found at start; it is never written
Registries ==
    { << <<"A", 400000>>, <<"B", 0>> >>,
      << <<"A", 400000>>, <<"B", -400>> >> }

\* the dates the clock shows
Todays == { Date(2026, 3, 4), Date(2027, 4, 5) }

\* the dates typed into st.date_input (its default is today):
\* inside 2025-2026, inside 2027-2028, inside 2026-2027
FormDates == Todays \cup { Date(2026, 4, 5) }

\* st.number_input(min_value=0.0) of the payment form
AddAmounts == {100000}

\* st.number_input of the edit form: no min_value
EditAmounts == {-30000}

NoteInputs == {"cash"}

\* debt_payments.xlsx as found at start: absent, or rows written by hand
InitialFiles ==
    { <<>>,
      << [name |-> "A", date |-> <<2025, 2, 30>>, amount |-> 30000, note |-> ""] >>,
      << [name |-> "B", date |-> <<>>, amount |-> 30000, note |-> "cash"] >>,
      << [name |-> "Z", date |-> <<2025, 6, 1>>, amount |-> 30000, note |-> "cash"] >>,
      << [name |-> "A", date |-> <<2025, 6, 1>>, amount |-> 30000, note |-> "cash"] >> }

\* the clock never runs backwards
Later(now) == {t \in Todays : DateGE(t, now)}

\* every calendar day of the contract span and of the years around it
CalendarYears ==
    (start_contract_fiscal_year - YearsAround) ..
        (start_contract_fiscal_year + CONTRACT_YEARS + YearsAround)

CalendarDates ==
    {Date(y, m, d) : y \in CalendarYears, m \in 1..12, d \in 1..31} \cap
        {dt \in [year : CalendarYears, month : 1..12, day : 1..31] :
            IsValidYMD(dt.year, dt.month, dt.day)}

\* the fiscal start years of the four rows
ContractYears ==
    start_contract_fiscal_year .. (start_contract_fiscal_year + CONTRACT_YEARS - 1)

\* clock readings around every penalty check date
ClockProbes ==
    { Date(2025, 4, 10) } \cup
    { Date(y + 1, 3, 3) : y \in ContractYears } \cup
    { Date(y + 1, 3, 4) : y \in ContractYears }

----------------------------------------------------------------------------
(* main: the handlers, each with the rerun that ends it *)

\* the browser sessions: Streamlit runs main() for each in a thread of its own
Sessions == {"s1", "s2"}

\* a session whose script run is in no handler
Idle ==
    [pc |-> "idle", loaded |-> <<>>,
     op |-> [kind |-> "none", customer |-> "", index |-> 0,
             date |-> NaT, amount |-> 0, note |-> ""]]

\* what the page shows at the end of a script run
Render(cdf, file, customer, now) ==
    display_customer_summary(customer, customer_amounts(cdf), load_data(file), now)

Init ==
    /\ customers_df \in {r \in Registries : \E k \in 1..Len(r) : r[k][2] < 0}
    /\ payments_file \in InitialFiles
    /\ today \in Todays
    /\ selected_customer = customer_names(customers_df)[1]
    /\ summary_data = Render(customers_df, payments_file, selected_customer, today)
    /\ receipt = <<>>
    /\ last_op = "load"
    /\ sessions = [s \in Sessions |-> Idle]

\* pd.concat([payments_df_latest, new_row], ignore_index=True), then the save
add_row(file, customer, payment_date, amount_paid, note) ==
    LET payments_df_latest == load_data(file)
        new_row == [name |-> customer, date |-> strftime(payment_date),
                    amount |-> amount_paid, note |-> note, date_dt |-> NaT]
    IN  to_excel(Append(payments_df_latest, new_row))

\* if submit_btn: save, reload, summary, receipt, st.rerun()
AddPayment(customer, payment_date, amount_paid, note) ==
    /\ Len(payments_file) < MaxRecords
    /\ LET saved == add_row(payments_file, customer, payment_date, amount_paid, note)
           payments_df_after_save == load_data(saved)
           amounts == customer_amounts(customers_df)
           total_paid_after_save == total_paid_all_time(customer, payments_df_after_save)
           total_due_for_pdf == total_due_of(customer, amounts)
           yearly == display_customer_summary(customer, amounts, payments_df_after_save, today)
       IN  /\ payments_file' = saved
           /\ receipt' = << generate_pdf_receipt(customer, payment_date, amount_paid,
                                total_due_for_pdf, total_paid_after_save,
                                total_due_for_pdf - total_paid_after_save, yearly) >>
           /\ summary_data' = Render(customers_df, saved, customer, today)
    /\ selected_customer' = customer
    /\ last_op' = "add"
    /\ UNCHANGED <<customers_df, today, sessions>>

\* datetime.strptime(original_date_str, "%Y-%m-%d").date(), today when it fails
original_date(cell, now) ==
    IF Len(cell) = 3 /\ IsValidYMD(cell[1], cell[2], cell[3])
    THEN Date(cell[1], cell[2], cell[3])
    ELSE now

\* payments_df_to_modify.at[selected_index, ...] = ..., then the save
edit_row(file, selected_index, new_date, new_amount, new_note) ==
    LET payments_df_to_modify == load_data(file)
    IN  to_excel([payments_df_to_modify EXCEPT
                    ![selected_index].date = strftime(new_date),
                    ![selected_index].amount = new_amount,
                    ![selected_index].note = new_note])

\* if update_btn: reload, overwrite the three cells, save, st.rerun()
EditPayment(customer, selected_index, new_date, new_amount, new_note) ==
    /\ selected_index \in customer_rows(customer, load_data(payments_file))
    /\ payments_file' = edit_row(payments_file, selected_index, new_date, new_amount, new_note)
    /\ summary_data' = Render(customers_df, payments_file', customer, today)
    /\ receipt' = <<>>
    /\ selected_customer' = customer
    /\ last_op' = "edit"
    /\ UNCHANGED <<customers_df, today, sessions>>

\* a rerun that writes nothing: another customer or page is selected, maybe on a later day
ViewSummary(customer, now) ==
    /\ summary_data' = Render(customers_df, payments_file, customer, now)
    /\ receipt' = <<>>
    /\ today' = now
    /\ selected_customer' = customer
    /\ last_op' = "view"
    /\ UNCHANGED <<customers_df, payments_file, sessions>>

Names == {customer_names(customers_df)[k] : k \in 1..Len(customers_df)}

Add ==
    \E customer \in Names, payment_date \in FormDates,
       amount_paid \in AddAmounts, note \in NoteInputs :
        AddPayment(customer, payment_date, amount_paid, note)

Edit ==
    \E customer \in Names, selected_index \in 1..Len(payments_file) :
        LET df == load_data(payments_file)
        IN  \E new_date \in FormDates \cup {original_date(df[selected_index].date, today)},
               new_amount \in EditAmounts \cup {df[selected_index].amount} :
                EditPayment(customer, selected_index, new_date, new_amount,
                            str(df[selected_index].note))

View ==
    \E customer \in Names, now \in Later(today) : ViewSummary(customer, now)

Next == Add \/ Edit \/ View

Spec == Init /\ [][Next]_vars

----------------------------------------------------------------------------
(* One payment on an empty store, on any calendar day, under any clock probe *)

InitCalendar ==
    /\ customers_df \in Registries
    /\ payments_file = <<>>
    /\ today \in ClockProbes
    /\ selected_customer = customer_names(customers_df)[1]
    /\ summary_data = Render(customers_df, payments_file, selected_customer, today)
    /\ receipt = <<>>
    /\ last_op = "load"
    /\ sessions = [s \in Sessions |-> Idle]

FirstPayment ==
    /\ payments_file = <<>>
    /\ \E customer \in Names, payment_date \in CalendarDates,
          amount_paid \in AddAmounts \cup {30000} :
           AddPayment(customer, payment_date, amount_paid, "cash")

NextCalendar == FirstPayment

SpecCalendar == InitCalendar /\ [][NextCalendar]_vars

----------------------------------------------------------------------------
(* Two sessions on the one payment store: each handler in its steps *)

\* The script threads of two sessions run the handlers side by side; nothing
\* in main() locks debt_payments.xlsx. A handler is taken in three steps:
\* the load (cache clear and load_data, which therefore reads the file), the
\* save with its st.success, and the rest up to st.rerun(). Each session
\* submits one form, the add form or the edit form, and is "done" after it.

\* the dataset a handler writes: its mutation applied to the dataset it loaded
written_file_reloaded(loaded, op, current) ==
    IF op.kind = "add"
    THEN add_row(current, op.customer, op.date, op.amount, op.note)
    ELSE edit_row(current, op.index, op.date, op.amount, op.note)

written_file(loaded, op, current) ==
    IF op.kind = "add"
    THEN add_row(loaded, op.customer, op.date, op.amount, op.note)
    ELSE edit_row(loaded, op.index, op.date, op.amount, op.note)

\* if submit_btn: st.cache_data.clear(); ... = load_data()
AddLoad(s, customer, payment_date, amount_paid, note) ==
    /\ sessions[s].pc = "idle"
    /\ Len(payments_file) < MaxRecords
    /\ sessions' = [sessions EXCEPT ![s] =
            [pc |-> "loaded", loaded |-> payments_file,
             op |-> [kind |-> "add", customer |-> customer, index |-> 0,
                     date |-> payment_date, amount |-> amount_paid, note |-> note]]]
    /\ UNCHANGED <<customers_df, payments_file, today, selected_customer,
                   summary_data, receipt, last_op>>

\* if update_btn: st.cache_data.clear(); ... = load_data()
EditLoad(s, customer, selected_index, new_date, new_amount, new_note) ==
    /\ sessions[s].pc = "idle"
    /\ selected_index \in customer_rows(customer, load_data(payments_file))
    /\ sessions' = [sessions EXCEPT ![s] =
            [pc |-> "loaded", loaded |-> payments_file,
             op |-> [kind |-> "edit", customer |-> customer, index |-> selected_index,
                     date |-> new_date, amount |-> new_amount, note |-> new_note]]]
    /\ UNCHANGED <<customers_df, payments_file, today, selected_customer,
                   summary_data, receipt, last_op>>

\* concat or .at[...] on the loaded dataset, to_excel, st.success
Save(s) ==
    /\ sessions[s].pc = "loaded"
    /\ payments_file' = written_file(sessions[s].loaded, sessions[s].op, payments_file)
    /\ sessions' = [sessions EXCEPT ![s].pc = "saved"]
    /\ UNCHANGED <<customers_df, today, selected_customer, summary_data, receipt, last_op>>

\* the reload after the save, the receipt of an add, st.rerun() and the page it draws
Rerun(s) ==
    /\ sessions[s].pc = "saved"
    /\ LET op == sessions[s].op
           payments_df_after_save == load_data(payments_file)
           amounts == customer_amounts(customers_df)
           total_due_for_pdf == total_due_of(op.customer, amounts)
           total_paid_after_save == total_paid_all_time(op.customer, payments_df_after_save)
           yearly == display_customer_summary(op.customer, amounts, payments_df_after_save, today)
       IN  /\ receipt' = IF op.kind = "add"
                         THEN << generate_pdf_receipt(op.customer, op.date, op.amount,
                                    total_due_for_pdf, total_paid_after_save,
                                    total_due_for_pdf - total_paid_after_save, yearly) >>
                         ELSE <<>>
           /\ summary_data' = yearly
           /\ selected_customer' = op.customer
           /\ last_op' = op.kind
    /\ sessions' = [sessions EXCEPT ![s].pc = "done"]
    /\ UNCHANGED <<customers_df, payments_file, today>>

SubmitAdd ==
    \E s \in Sessions, customer \in Names, payment_date \in FormDates,
       amount_paid \in AddAmounts, note \in NoteInputs :
        AddLoad(s, customer, payment_date, amount_paid, note)

SubmitEdit ==
    \E s \in Sessions, customer \in Names, selected_index \in 1..Len(payments_file) :
        LET df == load_data(payments_file)
        IN  \E new_date \in FormDates \cup {original_date(df[selected_index].date, today)},
               new_amount \in EditAmounts \cup {df[selected_index].amount} :
                EditLoad(s, customer, selected_index, new_date, new_amount,
                         str(df[selected_index].note))

SaveStep == \E s \in Sessions : Save(s)

RerunStep == \E s \in Sessions : Rerun(s)

NextSessions == SubmitAdd \/ SubmitEdit \/ SaveStep \/ RerunStep

SpecSessions == Init /\ [][NextSessions]_vars

----------------------------------------------------------------------------
(* Vocabulary of the properties *)

\* the period [April 5 Y, March 5 Y+1] of fiscal start year Y
InPeriod(d, Y) ==
    /\ d # NaT
    /\ DateGE(d, Date(Y, 4, 5))
    /\ DateLE(d, Date(Y + 1, 3, 5))

Label(Y) == <<Y, Y + 1>>

\* the row of summary_data for fiscal start year Y
RowOf(summary, Y) == summary[Y - start_contract_fiscal_year + 1]

\* the store as the summary reads it
Loaded == load_data(payments_file)

\* the rows of the store that the summary counts in fiscal year Y, for their own customer
CountedIn(i, Y) == i \in df_year(Loaded[i].name, Loaded, Y)

----------------------------------------------------------------------------
(* C1 *)

\* C1 (as claimed): every payment date gets from get_fiscal_year_string the
\* label of exactly the fiscal year whose bucket counts the payment: the
\* payment is counted in row Y if and only if its label is "Y-(Y+1)".
C1_LabelNamesTheBucket ==
    \A i \in 1..Len(Loaded) :
        Loaded[i].date_dt # NaT =>
            \A Y \in ContractYears :
                CountedIn(i, Y) <=> get_fiscal_year_string(Loaded[i].date_dt) = Label(Y)

----------------------------------------------------------------------------
(* C2 *)

\* C2: in every row, with fiscal start year Y: remaining = 0 gives status
\* "none"; remaining # 0 and today <= March 3 of Y+1 gives "pending";
\* remaining # 0 and today after March 3 of Y+1 gives the penalty text of
\* remaining * 0.15 (to the satang). With total_debt 400000 and nothing paid,
\* on 2026-03-04 row 2025-2026 shows 15,000.00 and on 2026-03-03 "pending".
C2_PenaltyRule ==
    /\ \A Y \in ContractYears :
        LET row == RowOf(summary_data, Y)
            cutoff == Date(Y + 1, 3, 3)
        IN  /\ row.remaining4 = 0 => row.status = <<"none", 0>>
            /\ (row.remaining4 # 0 /\ DateLE(today, cutoff)) => row.status = <<"pending", 0>>
            /\ (row.remaining4 # 0 /\ ~DateLE(today, cutoff)) =>
                    /\ row.status[1] = "baht"
                    /\ CONTRACT_YEARS * row.status[2] - PENALTY_RATE_PCT * row.remaining4 \in -2..2
    /\ (/\ total_due_of(selected_customer, customer_amounts(customers_df)) = 400000
        /\ customer_rows(selected_customer, Loaded) = {}) =>
            /\ today = Date(2026, 3, 4) => RowOf(summary_data, 2025).status = <<"baht", 1500000>>
            /\ today = Date(2026, 3, 3) => RowOf(summary_data, 2025).status = <<"pending", 0>>

\* a payment of the yearly amount in 2025-2026 is on file, and one day after the
\* 2026-2027 check date the rows show all three statuses
C2_Witness ==
    /\ today = Date(2027, 3, 4)
    /\ last_op = "add"
    /\ RowOf(summary_data, 2025).status = <<"none", 0>>
    /\ RowOf(summary_data, 2026).status = <<"baht", 1500000>>
    /\ RowOf(summary_data, 2027).status = <<"pending", 0>>

----------------------------------------------------------------------------
(* C3 *)

\* C3 (as claimed): a payment dated April 5 of Y is counted in the paid amount
\* of fiscal year Y, and a payment dated April 4 of Y is counted in the paid
\* amount of fiscal year Y-1 (for the Y whose previous year has a row).
C3_April4InPreviousYear ==
    \A i \in 1..Len(Loaded), Y \in ContractYears :
        /\ Loaded[i].date_dt = Date(Y, 4, 5) => CountedIn(i, Y)
        /\ (Loaded[i].date_dt = Date(Y, 4, 4) /\ Y - 1 \in ContractYears) =>
                CountedIn(i, Y - 1)

----------------------------------------------------------------------------
(* C4 *)

----------------------------------------------------------------------------
(* C9 *)

\* C9 (as claimed): the receipt of a payment dated outside the four periods
\* (each April 5 to March 5) shows "no matching period"; the receipt of a
\* payment dated inside a period shows exactly the row of that period.
C9_ReceiptLookup ==
    receipt # <<>> =>
        LET d == receipt[1].payment_date
            yearly == Render(customers_df, payments_file, receipt[1].customer_name, today)
        IN  /\ (\A Y \in ContractYears : ~InPeriod(d, Y)) => receipt[1].info = <<>>
            /\ \A Y \in ContractYears :
                    InPeriod(d, Y) => receipt[1].info = <<RowOf(yearly, Y)>>

----------------------------------------------------------------------------
(* C5 *)

\* a date cell that is empty or names no calendar day
Unparseable(cell) == ~(Len(cell) = 3 /\ IsValidYMD(cell[1], cell[2], cell[3]))

\* the store without row i
Without(file, i) == SubSeq(file, 1, i - 1) \o SubSeq(file, i + 1, Len(file))

\* C5: a payment whose date cell is unparseable or missing adds its amount to
\* its customer's total_paid_all_time and to the paid amount of none of the four
\* rows (with and without the payment every row's paid is the same); the
\* summary shown has the four rows 2025-2026 .. 2028-2029.
C5_UndatedPaymentOnlyInLifetimeTotal ==
    /\ Len(summary_data) = CONTRACT_YEARS
    /\ \A Y \in ContractYears : RowOf(summary_data, Y).fiscal_year = Label(Y)
    /\ \A i \in 1..Len(payments_file) :
        Unparseable(payments_file[i].date) =>
            LET c == payments_file[i].name
                rest == load_data(Without(payments_file, i))
            IN  /\ total_paid_all_time(c, Loaded) =
                        total_paid_all_time(c, rest) + payments_file[i].amount
                /\ \A Y \in ContractYears :
                        paid_this_fiscal_year(c, Loaded, Y) = paid_this_fiscal_year(c, rest, Y)
                /\ c = selected_customer =>
                        \A Y \in ContractYears :
                            RowOf(summary_data, Y).paid = paid_this_fiscal_year(c, rest, Y)

\* customer A has an undated payment of 30000 on file and a dated one of 100000:
\* the rows show 100000 paid in all, the lifetime total is 130000
C5_Witness ==
    /\ last_op = "add"
    /\ selected_customer = "A"
    /\ Len(payments_file) = 2
    /\ Unparseable(payments_file[1].date)
    /\ payments_file[1].name = "A"
    /\ receipt[1].total_paid_all_time = 130000
    /\ RowOf(summary_data, 2025).paid = 100000
    /\ \A Y \in ContractYears \ {2025} : RowOf(summary_data, Y).paid = 0

----------------------------------------------------------------------------
(* C6 *)

\* the sum of the four required amounts shown, in quarter baht
RequiredSum4 ==
    RowOf(summary_data, 2025).required4 + RowOf(summary_data, 2026).required4
        + RowOf(summary_data, 2027).required4 + RowOf(summary_data, 2028).required4

\* C6 (as claimed): for every customer of the registry the four required
\* amounts sum to the customer's total_debt.
C6_RequiredSumsToDebt ==
    RequiredSum4 =
        CONTRACT_YEARS * total_due_of(selected_customer, customer_amounts(customers_df))

\* C6 (amended): for every customer of the registry whose total_debt is not
\* negative the four required amounts sum to total_debt; for a negative
\* total_debt each of the four required amounts is 0.
C6_RequiredSumsToNonNegativeDebt ==
    LET total_due == total_due_of(selected_customer, customer_amounts(customers_df))
    IN  /\ selected_customer \in DOMAIN customer_amounts(customers_df)
        /\ total_due >= 0 => RequiredSum4 = CONTRACT_YEARS * total_due
        /\ total_due < 0 => \A Y \in ContractYears : RowOf(summary_data, Y).required4 = 0

\* the summary of customer B, whose AmountDue is -400, after a payment of B
C6_Witness ==
    /\ last_op = "add"
    /\ selected_customer = "B"
    /\ customer_amounts(customers_df)["B"] = -400
    /\ RequiredSum4 = 0

----------------------------------------------------------------------------
(* C7 *)

\* C7 (as claimed): when the customer shown has on file a payment of exactly
\* the yearly required amount dated inside fiscal year Y, row Y shows
\* remaining 0 and status "none", at every clock reading and whatever else the
\* store holds.
C7_FullPaymentClearsTheYear ==
    \A i \in 1..Len(Loaded), Y \in ContractYears :
        (/\ Loaded[i].name = selected_customer
         /\ InPeriod(Loaded[i].date_dt, Y)
         /\ CONTRACT_YEARS * Loaded[i].amount =
                required_yearly4(selected_customer, customer_amounts(customers_df)))
        => /\ RowOf(summary_data, Y).remaining4 = 0
           /\ RowOf(summary_data, Y).status = <<"none", 0>>

----------------------------------------------------------------------------
(* C8 *)

\* the step rewrote row i with another date and the same customer and amount,
\* and left the customer, date and amount of every other row as they were
DateOnlyEdit(i) ==
    /\ Len(payments_file') = Len(payments_file)
    /\ i \in 1..Len(payments_file)
    /\ payments_file'[i].name = payments_file[i].name
    /\ payments_file'[i].amount = payments_file[i].amount
    /\ payments_file'[i].date # payments_file[i].date
    /\ \A j \in 1..Len(payments_file) : j # i =>
            /\ payments_file'[j].name = payments_file[j].name
            /\ payments_file'[j].amount = payments_file[j].amount
            /\ payments_file'[j].date = payments_file[j].date

C8_Step ==
    \A i \in 1..Len(payments_file), A \in ContractYears, B \in ContractYears :
        (/\ DateOnlyEdit(i)
         /\ A # B
         /\ InPeriod(to_datetime(payments_file[i].date), A)
         /\ InPeriod(to_datetime(payments_file'[i].date), B))
        => LET c == payments_file[i].name
               amount == payments_file[i].amount
               before == Render(customers_df, payments_file, c, today)
               amounts == customer_amounts(customers_df)
           IN  /\ selected_customer' = c
               /\ RowOf(summary_data', A).paid = RowOf(before, A).paid - amount
               /\ RowOf(summary_data', B).paid = RowOf(before, B).paid + amount
               /\ \A Y \in ContractYears \ {A, B} :
                       RowOf(summary_data', Y).paid = RowOf(before, Y).paid
               /\ total_paid_all_time(c, load_data(payments_file')) =
                       total_paid_all_time(c, Loaded)
               /\ total_remaining(c, amounts, load_data(payments_file')) =
                       total_remaining(c, amounts, Loaded)

\* C8: an edit that changes only the date of a payment, from inside fiscal
\* period A to inside another period B, lowers A's paid by the amount, raises
\* B's paid by the amount, leaves the paid of the other two periods, and
\* total_paid_all_time and total_remaining, unchanged.
C8_EditMovesPaid == [][C8_Step]_vars

\* the payment of 30000 that the store started with in 2025-2026 (the only one
\* of that amount) has been edited into 2027-2028, beside a payment of 100000
\* in 2026-2027: the rows show 0, 100000, 30000, 0
C8_Witness ==
    /\ last_op = "edit"
    /\ selected_customer = "A"
    /\ Len(payments_file) = 2
    /\ payments_file[1] = [name |-> "A", date |-> <<2027, 4, 5>>, amount |-> 30000, note |-> "cash"]
    /\ payments_file[2].name = "A"
    /\ RowOf(summary_data, 2025).paid = 0
    /\ RowOf(summary_data, 2026).paid = 100000
    /\ RowOf(summary_data, 2027).paid = 30000
    /\ RowOf(summary_data, 2028).paid = 0

----------------------------------------------------------------------------
(* C10 *)

\* C10 (as claimed): for a customer without registry entry, or with
\* total_debt zero or negative, every row has required 0, remaining 0 and
\* status "none", at every clock reading and for every store that add and edit
\* operations produce.
C10_NoDebtNoPenalty ==
    \A c \in Names \cup {"Z"} :
        total_due_of(c, customer_amounts(customers_df)) <= 0 =>
            LET summary == IF c = selected_customer THEN summary_data
                           ELSE Render(customers_df, payments_file, c, today)
            IN  \A Y \in ContractYears :
                    /\ RowOf(summary, Y).required4 = 0
                    /\ RowOf(summary, Y).remaining4 = 0
                    /\ RowOf(summary, Y).status = <<"none", 0>>

----------------------------------------------------------------------------
(* C12 *)

\* C12 (as claimed): starting from a store whose amounts are all zero or
\* positive, after any sequence of add and edit operations every stored
\* payment has amount >= 0, and every row of the summary has
\* 0 <= remaining <= required.
C12_AmountsStayNonNegative ==
    /\ \A i \in 1..Len(payments_file) : payments_file[i].amount >= 0
    /\ \A k \in 1..Len(summary_data) :
        /\ 0 <= summary_data[k].remaining4
        /\ summary_data[k].remaining4 <= summary_data[k].required4

----------------------------------------------------------------------------
(* C13 *)

\* one step of a single session, on the rows of the store as they are on file
C13_Step ==
    /\ Len(payments_file') >= Len(payments_file)
    /\ last_op' = "add" =>
        /\ Len(payments_file') = Len(payments_file) + 1
        /\ \A i \in 1..Len(payments_file) : payments_file'[i] = payments_file[i]
    /\ last_op' = "edit" =>
        /\ Len(payments_file') = Len(payments_file)
        /\ \A i \in 1..Len(payments_file) : payments_file'[i].name = payments_file[i].name
        /\ \E j \in 1..Len(payments_file) :
             \A i \in 1..Len(payments_file) \ {j} : payments_file'[i] = payments_file[i]
    /\ last_op' = "view" => payments_file' = payments_file

\* C13 (as claimed): in a single session an add leaves every record on file
\* unchanged and appends exactly one record at the end; an edit changes at
\* most one record, never a customer name, and never the number or the order
\* of the records; no operation deletes a record.
C13_FrameOfAddAndEdit == [][C13_Step]_vars

----------------------------------------------------------------------------
(* C11 *)

\* the update of a submission is on file: the row an add appended to the
\* dataset it loaded, or the three cells an edit wrote to its row
Present(op, loaded, file) ==
    IF op.kind = "add"
    THEN /\ Len(file) > Len(loaded)
         /\ file[Len(loaded) + 1] = [name |-> op.customer, date |-> strftime(op.date),
                                     amount |-> op.amount, note |-> write_note(op.note)]
    ELSE /\ Len(file) >= op.index
         /\ file[op.index].date = strftime(op.date)
         /\ file[op.index].amount = op.amount
         /\ file[op.index].note = write_note(op.note)

\* session s saves in this step, and session o, with another submission on
\* the same loaded dataset, has already saved an update and reported it
Overtakes(s, o) ==
    /\ s # o
    /\ sessions[s].pc = "loaded"
    /\ sessions'[s].pc = "saved"
    /\ sessions[o].pc = "saved"
    /\ sessions[o].loaded = sessions[s].loaded
    /\ sessions[o].op # sessions[s].op
    /\ ~Present(sessions[o].op, sessions[o].loaded, to_excel(load_data(sessions[o].loaded)))

C11_Step ==
    \A s \in Sessions, o \in Sessions :
        Overtakes(s, o) =>
            /\ sessions'[o].pc = "saved"
            /\ ~Present(sessions[o].op, sessions[o].loaded, payments_file')

\* C11: nothing protects the store against two writers. Whenever a session
\* saves after another session has saved a different update from the same
\* loaded dataset, the other session's update, reported as saved, is absent
\* from the store afterwards (lost update); such a state is reachable.
C11_LostUpdate == [][C11_Step]_vars

\* two sessions loaded the same store, each added a payment and reported it
\* saved, and the store holds one new row: the payment of s1 is not on file
C11_Witness ==
    /\ sessions["s1"].pc = "saved"
    /\ sessions["s2"].pc = "saved"
    /\ sessions["s1"].op.kind = "add"
    /\ sessions["s2"].op.kind = "add"
    /\ sessions["s1"].loaded = sessions["s2"].loaded
    /\ Len(payments_file) = Len(sessions["s1"].loaded) + 1
    /\ ~Present(sessions["s1"].op, sessions["s1"].loaded, payments_file)
    /\ Present(sessions["s2"].op, sessions["s2"].loaded, payments_file)

====
